---- MODULE Spec2Model ----
(***************************************************************************)
(* A model of the GPX distance / ascent / GOT-points calculator.           *)
(*                                                                         *)
(* float64 quantities (degrees, metres) are exact rationals, held as       *)
(* integers in units of 1/Scale; Scale is a multiple of every divisor a    *)
(* moving average can use on the bounded inputs, so every mean is exact.   *)
(* A distance in km is the formal sum of its great-circle terms, a bag     *)
(* with one unordered pair of positions per term (sin, cos and atan2 have  *)
(* no exact value here); adding distances is bag union, 0 is the empty bag.*)
(* Sequences are 1-based: Go's index k is index k+1 here.                  *)
(***************************************************************************)
EXTENDS Integers, Sequences, FiniteSets, Bags, TLC

VARIABLES
    points,       \* the backing array of the []TrackPoint argument
    threshold,    \* calculateCumulativeAscent's threshold
    pc,           \* position in the function under analysis
    i,            \* loop index of calculateCumulativeAscent (1-based)
    totalAscent,  \* calculateCumulativeAscent's committed total
    climb,        \* calculateCumulativeAscent's pending climb
    prevEle,      \* calculateCumulativeAscent's previous elevation
    ret,          \* the value returned
    windowSize,   \* the smoothers' windowSize argument
    given,        \* the caller's record of the points it handed in
    result,       \* main's totals after one segment; in the report, one day's result
    location,     \* groupByDay's location argument; polandLocation in main
    gpx,          \* main: the parsed GPX, a sequence of tracks
    trk,          \* main: index of the track of the loop over gpx.Tracks
    sg,           \* main: index of the segment of the loop over track.TrackSegs
    grouped,      \* main: the day buckets of the current segment
    pending,      \* main: the keys range grouped has yet to visit
    day,          \* main: the key of the current iteration of range grouped
    dist,         \* main: the distance of the current unit
    ascent,       \* main: the ascent of the current unit
    results,      \* main: the per-day results
    run,          \* which run of the analysis on this input this is
    firstResults  \* the results the first run ended with

mainVars == <<gpx, trk, sg, grouped, pending, day, dist, ascent, results, run, firstResults>>

vars == <<points, threshold, pc, i, totalAscent, climb, prevEle, ret, windowSize, given, result,
          location, mainVars>>

ascentVars == <<threshold, i, totalAscent, climb, prevEle>>

smoothVars == <<windowSize, given, result, location, mainVars>>

----------------------------------------------------------------------------
(* Bounds *)

\* longest elevation sequence handed to calculateCumulativeAscent
MaxLen == 4

\* longest point sequence handed to a smoother or to groupByDay (at most MaxLen)
MaxPoints == 3

\* largest window size handed to a smoother
MaxWindow == 5

\* most elements (track points, further segments, further tracks) of a GPX file
MaxItems == 5

----------------------------------------------------------------------------
(* Arithmetic helpers *)

Abs(x) == IF x < 0 THEN -x ELSE x

Min(a, b) == IF a < b THEN a ELSE b

RECURSIVE Gcd(_, _)
Gcd(a, b) == IF b = 0 THEN a ELSE Gcd(b, a % b)

RECURSIVE LcmUpTo(_)
LcmUpTo(n) == IF n <= 1 THEN 1 ELSE (LcmUpTo(n - 1) * n) \div Gcd(LcmUpTo(n - 1), n)

\* one degree / one metre / one km, in the model's unit: tenths are exact, and
\* so is every mean of up to MaxLen values
Scale == 10 * LcmUpTo(MaxLen)

RECURSIVE SetSum(_)
SetSum(S) == IF S = {} THEN 0 ELSE LET x == CHOOSE x \in S : TRUE IN x[2] + SetSum(S \ {x})

\* all sequences over S of length at most n
SeqsUpTo(S, n) == UNION {[1..k -> S] : k \in 0..n}

----------------------------------------------------------------------------
(* TrackPoint, time.Time and time.Location *)

(* An instant is its number of minutes since 2024-01-01T00:00Z; a location  *)
(* is a fixed offset from UTC in minutes.                                  *)
UTC == [name |-> "UTC", offset |-> 0]

FixedZone(name, hours) == [name |-> name, offset |-> hours * 60]

TrackPoint(lat, lon, ele, t) == [Latitude |-> lat, Longitude |-> lon, Elevation |-> ele, Time |-> t]

\* totalDistanceKm := 0.0, totalAscentMeters := 0.0
NoResult == [Distance |-> EmptyBag, Ascent |-> 0]

\* make(map[string]...)
EmptyMap == [k \in {} |-> <<>>]

\* the variables of functions that are not running
AscentIdle == threshold = 0 /\ i = 0 /\ totalAscent = 0 /\ climb = 0 /\ prevEle = 0

MainIdle ==
    /\ gpx = <<>> /\ trk = 0 /\ sg = 0 /\ grouped = EmptyMap /\ pending = {} /\ day = ""
    /\ dist = EmptyBag /\ ascent = 0 /\ results = EmptyMap /\ run = 0 /\ firstResults = EmptyMap

----------------------------------------------------------------------------
(* calculateCumulativeAscent *)

\* the locals before the loop
AscentStart(pts) == [totalAscent |-> 0, climb |-> 0, prevEle |-> pts[1].Elevation]

\* variants of the loop body with a slip in the else branch
AscentBody_NoResetOnReject(st, pts, k, T) ==
    LET currEle == pts[k].Elevation
        diff == currEle - st.prevEle
    IN  IF diff > 0
        THEN [st EXCEPT !.climb = st.climb + diff, !.prevEle = currEle]
        ELSE IF st.climb >= T
             THEN [totalAscent |-> st.totalAscent + st.climb, climb |-> 0, prevEle |-> currEle]
             ELSE [st EXCEPT !.prevEle = currEle]

AscentBody_SubtractDescent(st, pts, k, T) ==
    LET currEle == pts[k].Elevation
        diff == currEle - st.prevEle
    IN  IF diff > 0
        THEN [st EXCEPT !.climb = st.climb + diff, !.prevEle = currEle]
        ELSE [totalAscent |-> IF st.climb >= T THEN st.totalAscent + st.climb ELSE st.totalAscent,
              climb |-> diff,
              prevEle |-> currEle]

\* one iteration of the loop, on the point at index k
AscentBody(st, pts, k, T) ==
    LET currEle == pts[k].Elevation
        diff == currEle - st.prevEle
    IN  IF diff > 0
        THEN [st EXCEPT !.climb = st.climb + diff, !.prevEle = currEle]
        ELSE [totalAscent |-> IF st.climb >= T THEN st.totalAscent + st.climb ELSE st.totalAscent,
              climb |-> 0,
              prevEle |-> currEle]

AscentFlush_DropPending(st, T) == st.totalAscent

\* the flush after the loop: the value returned
AscentFlush(st, T) == IF st.climb >= T THEN st.totalAscent + st.climb ELSE st.totalAscent

RECURSIVE AscentLoop(_, _, _, _)
AscentLoop(st, pts, k, T) ==
    IF k > Len(pts) THEN st ELSE AscentLoop(AscentBody(st, pts, k, T), pts, k + 1, T)

\* the function as a whole
calculateCumulativeAscent(pts, T) ==
    IF Len(pts) < 2 THEN 0 ELSE AscentFlush(AscentLoop(AscentStart(pts), pts, 2, T), T)

\* inputs: elevations in metres and thresholds in metres
AscentElevations == {0, Scale, (3 * Scale) \div 2, 3 * Scale, 5 * Scale}

ElevationTrack(es) == [k \in 1..Len(es) |-> TrackPoint(0, 0, es[k] , 0)]

ExampleTracks ==
    { ElevationTrack(<<100 * Scale, 102 * Scale, 101 * Scale, 105 * Scale>>),
      ElevationTrack(<<0, 3 * Scale, 0, 3 * Scale, 0>>),
      ElevationTrack(<<0, 10 * Scale, 20 * Scale, 30 * Scale>>) }

AscentInputs == {ElevationTrack(es) : es \in SeqsUpTo(AscentElevations, MaxLen)} \cup ExampleTracks

\* ascentThreshold of main is 1.5
ascentThreshold == (3 * Scale) \div 2

Thresholds == {0 - Scale, 0, ascentThreshold, 5 * Scale}

AscentInit ==
    /\ points \in AscentInputs
    /\ threshold \in Thresholds
    /\ pc = "call"
    /\ i = 0
    /\ totalAscent = 0
    /\ climb = 0
    /\ prevEle = 0
    /\ ret = 0
    /\ windowSize = 0
    /\ given = points
    /\ result = NoResult
    /\ location = UTC
    /\ MainIdle

\* len(points) < 2: return 0
AscentReturnZero ==
    /\ pc = "call"
    /\ Len(points) < 2
    /\ ret' = 0
    /\ pc' = "done"
    /\ UNCHANGED <<points, threshold, i, totalAscent, climb, prevEle, smoothVars>>

AscentEnter ==
    /\ pc = "call"
    /\ Len(points) >= 2
    /\ totalAscent' = AscentStart(points).totalAscent
    /\ climb' = AscentStart(points).climb
    /\ prevEle' = AscentStart(points).prevEle
    /\ i' = 2
    /\ pc' = "loop"
    /\ UNCHANGED <<points, threshold, ret, smoothVars>>

AscentIterate ==
    /\ pc = "loop"
    /\ i <= Len(points)
    /\ LET st == AscentBody([totalAscent |-> totalAscent, climb |-> climb, prevEle |-> prevEle],
                            points, i, threshold)
       IN  /\ totalAscent' = st.totalAscent
           /\ climb' = st.climb
           /\ prevEle' = st.prevEle
    /\ i' = i + 1
    /\ UNCHANGED <<points, threshold, pc, ret, smoothVars>>

AscentReturn ==
    /\ pc = "loop"
    /\ i > Len(points)
    /\ totalAscent' = AscentFlush([totalAscent |-> totalAscent, climb |-> climb, prevEle |-> prevEle], threshold)
    /\ ret' = totalAscent'
    /\ pc' = "done"
    /\ UNCHANGED <<points, threshold, i, climb, prevEle, smoothVars>>

AscentNext == AscentReturnZero \/ AscentEnter \/ AscentIterate \/ AscentReturn

SpecAscent == AscentInit /\ [][AscentNext]_vars

----------------------------------------------------------------------------
(* applyMovingAverage, applyLatLonSmoothing *)

\* float64 division; 0.0 / 0 is NaN
NaN == "NaN"

Div(sum, count) == IF count = 0 THEN NaN ELSE sum \div count

\* make([]TrackPoint, n): n zero-valued points
MakeTrackPoints(n) == [k \in 1..n |-> TrackPoint(0, 0, 0, 0)]

NormalizeWindow_Decrement(w) == IF w % 2 = 0 THEN w - 1 ELSE w

\* if windowSize%2 == 0 { windowSize++ }
NormalizeWindow(w) == IF w % 2 = 0 THEN w + 1 ELSE w

\* start and end of the window of index idx, clipped to the sequence
WindowStart(idx, half) == IF idx - half < 1 THEN 1 ELSE idx - half

WindowEnd(idx, half, n) == IF idx + half > n THEN n ELSE idx + half

\* the loop over j: the sum of field f of pts[j..end]
RECURSIVE SumField(_, _, _, _)
SumField(pts, j, end, f) == IF j > end THEN 0 ELSE pts[j][f] + SumField(pts, j + 1, end, f)

MovingAverageIter_FixedDivisor(mem, idx, half) ==
    LET start == WindowStart(idx, half)
        end == WindowEnd(idx, half, Len(mem.points))
        sumElevation == SumField(mem.points, start, end, "Elevation")
    IN  [mem EXCEPT !.smoothedPoints[idx] =
            [mem.points[idx] EXCEPT !.Elevation = Div(sumElevation, 2 * half + 1)]]

\* one iteration of applyMovingAverage's loop; mem holds the two arrays
MovingAverageIter(mem, idx, half) ==
    LET copied == [mem EXCEPT !.smoothedPoints[idx] = mem.points[idx]]
        start == WindowStart(idx, half)
        end == WindowEnd(idx, half, Len(copied.points))
        sumElevation == SumField(copied.points, start, end, "Elevation")
        count == end - start + 1
    IN  [copied EXCEPT !.smoothedPoints[idx].Elevation = Div(sumElevation, count)]

RECURSIVE MovingAverageLoop(_, _, _)
MovingAverageLoop(mem, idx, half) ==
    IF idx > Len(mem.points) THEN mem
    ELSE MovingAverageLoop(MovingAverageIter(mem, idx, half), idx + 1, half)

\* the function as a whole: the argument's array after the call, and the slice returned
applyMovingAverage(pts, w) ==
    IF w < 1 \/ Len(pts) = 0
    THEN [points |-> pts, ret |-> pts]
    ELSE LET halfWindow == NormalizeWindow(w) \div 2
             mem == MovingAverageLoop([points |-> pts, smoothedPoints |-> MakeTrackPoints(Len(pts))],
                                      1, halfWindow)
         IN  [points |-> mem.points, ret |-> mem.smoothedPoints]

\* one iteration of applyLatLonSmoothing's loop; mem holds the two arrays
LatLonIter(mem, idx, half) ==
    LET start == WindowStart(idx, half)
        end == WindowEnd(idx, half, Len(mem.points))
        sumLat == SumField(mem.points, start, end, "Latitude")
        sumLon == SumField(mem.points, start, end, "Longitude")
        count == end - start + 1
        copied == [mem EXCEPT !.smoothed[idx] = mem.points[idx]]
    IN  [copied EXCEPT !.smoothed[idx].Latitude = Div(sumLat, count),
                       !.smoothed[idx].Longitude = Div(sumLon, count)]

RECURSIVE LatLonLoop(_, _, _)
LatLonLoop(mem, idx, half) ==
    IF idx > Len(mem.points) THEN mem
    ELSE LatLonLoop(LatLonIter(mem, idx, half), idx + 1, half)

applyLatLonSmoothing_NilOnBadWindow(pts, w) ==
    IF w < 1 \/ Len(pts) = 0
    THEN [points |-> pts, ret |-> <<>>]
    ELSE LET half == NormalizeWindow(w) \div 2
             mem == LatLonLoop([points |-> pts, smoothed |-> MakeTrackPoints(Len(pts))], 1, half)
         IN  [points |-> mem.points, ret |-> mem.smoothed]

\* the function as a whole: the argument's array after the call, and the slice returned
applyLatLonSmoothing(pts, w) ==
    IF w < 1 \/ Len(pts) = 0
    THEN [points |-> pts, ret |-> pts]
    ELSE LET half == NormalizeWindow(w) \div 2
             mem == LatLonLoop([points |-> pts, smoothed |-> MakeTrackPoints(Len(pts))], 1, half)
         IN  [points |-> mem.points, ret |-> mem.smoothed]

----------------------------------------------------------------------------
(* haversineDistance2D and the body of main's loop over units of work *)

Position(p) == <<p.Latitude, p.Longitude>>

\* reads only the two positions; equal positions give a = 0, c = 0, distance 0
haversineDistance2D(p1, p2) ==
    IF Position(p1) = Position(p2) THEN EmptyBag
    ELSE SetToBag({{Position(p1), Position(p2)}})

\* for i := 1; i < len(smoothed); i++ { dist += haversineDistance2D(smoothed[i-1], smoothed[i]) }
\* from index k on, added to acc
RECURSIVE SegmentDistance(_, _, _)
SegmentDistance(smoothed, k, acc) ==
    IF k > Len(smoothed) THEN acc
    ELSE SegmentDistance(smoothed, k + 1, acc (+) haversineDistance2D(smoothed[k - 1], smoothed[k]))

\* const movingAverageWindowSize = 3
movingAverageWindowSize == 3

\* one unit of work: both smoothers, the distance and the ascent of the smoothed
\* points; points is the unit's own array after the calls
AnalyzeUnit(pts) ==
    LET ma == applyMovingAverage(pts, movingAverageWindowSize)
        ll == applyLatLonSmoothing(ma.ret, movingAverageWindowSize)
        smoothed == ll.ret
    IN  [points |-> IF Len(pts) = 0 THEN ll.points ELSE ma.points,
         smoothed |-> smoothed,
         Distance |-> SegmentDistance(smoothed, 2, EmptyBag),
         Ascent |-> calculateCumulativeAscent(smoothed, ascentThreshold)]

----------------------------------------------------------------------------
(* The smoothers and one segment of the whole-track main, on bounded inputs *)

SmoothPoints ==
    {TrackPoint(lat, lon, ele, IF lat = ele THEN 10 ELSE 20) :
        lat \in {0, Scale}, lon \in {0, 2 * Scale}, ele \in {0, 3 * Scale}}

Windows == (0 - 1)..MaxWindow

SmoothInit ==
    /\ points \in SeqsUpTo(SmoothPoints, MaxPoints)
    /\ windowSize \in Windows
    /\ given = points
    /\ pc = "call"
    /\ ret = <<>>
    /\ result = NoResult
    /\ location = UTC
    /\ AscentIdle
    /\ MainIdle

CallMovingAverage ==
    /\ pc = "call"
    /\ points' = applyMovingAverage(points, windowSize).points
    /\ ret' = applyMovingAverage(points, windowSize).ret
    /\ pc' = "applyMovingAverage"
    /\ UNCHANGED <<windowSize, given, result, location, ascentVars, mainVars>>

CallLatLonSmoothing ==
    /\ pc = "call"
    /\ points' = applyLatLonSmoothing(points, windowSize).points
    /\ ret' = applyLatLonSmoothing(points, windowSize).ret
    /\ pc' = "applyLatLonSmoothing"
    /\ UNCHANGED <<windowSize, given, result, location, ascentVars, mainVars>>

\* the body of the whole-track main's loop over segments, for the segment points
SegmentBody ==
    /\ pc = "call"
    /\ LET u == AnalyzeUnit(points)
       IN  /\ points' = u.points
           /\ ret' = u.smoothed
           /\ result' = [Distance |-> SegmentDistance(u.smoothed, 2, result.Distance),
                         Ascent |-> result.Ascent + u.Ascent]
    /\ pc' = "segment"
    /\ UNCHANGED <<windowSize, given, location, ascentVars, mainVars>>

SmoothNext == CallMovingAverage \/ CallLatLonSmoothing \/ SegmentBody

SpecSmooth == SmoothInit /\ [][SmoothNext]_vars

----------------------------------------------------------------------------
(* groupByDay *)

\* the instant of a UTC wall-clock reading of 2024
Date2024(month, dayOfMonth, hour, minute) ==
    LET before == <<0, 31, 60, 91, 121, 152, 182, 213, 244, 274, 305, 335>>
    IN  ((before[month] + dayOfMonth - 1) * 24 + hour) * 60 + minute

IsLeap(y) == (y % 4 = 0 /\ y % 100 # 0) \/ y % 400 = 0

DaysInYear(y) == IF IsLeap(y) THEN 366 ELSE 365

DaysInMonth(y, m) ==
    IF m = 2 THEN (IF IsLeap(y) THEN 29 ELSE 28)
    ELSE IF m \in {4, 6, 9, 11} THEN 30 ELSE 31

\* the civil date of day number d, counted from 1 January of year y
RECURSIVE CivilFrom(_, _, _)
CivilFrom(y, m, d) ==
    IF d < 0 THEN CivilFrom(y - 1, 1, d + DaysInYear(y - 1))
    ELSE IF m = 1 /\ d >= DaysInYear(y) THEN CivilFrom(y + 1, 1, d - DaysInYear(y))
    ELSE IF d >= DaysInMonth(y, m) THEN CivilFrom(y, m + 1, d - DaysInMonth(y, m))
    ELSE [year |-> y, month |-> m, day |-> d + 1]

In_IgnoreLocation(t, loc) == [wall |-> t, loc |-> loc]

\* t.In(location): the same instant, read on the location's wall clock
In(t, loc) == [wall |-> t + loc.offset, loc |-> loc]

Digit(n) == <<"0", "1", "2", "3", "4", "5", "6", "7", "8", "9">>[(n % 10) + 1]

\* localTime.Format("2006-01-02"): the characters of YYYY-MM-DD
FormatDate(localTime) ==
    LET c == CivilFrom(2024, 1, localTime.wall \div (24 * 60))
    IN  <<Digit(c.year \div 1000), Digit(c.year \div 100), Digit(c.year \div 10), Digit(c.year), "-",
          Digit(c.month \div 10), Digit(c.month), "-",
          Digit(c.day \div 10), Digit(c.day)>>

\* grouped[day] = append(grouped[day], p)
GroupAppend(g, key, p) ==
    [k \in DOMAIN g \cup {key} |->
        IF k = key THEN Append(IF k \in DOMAIN g THEN g[k] ELSE <<>>, p)
        ELSE g[k]]

\* the loop over points, from index k on
RECURSIVE GroupLoop(_, _, _, _)
GroupLoop(g, pts, k, loc) ==
    IF k > Len(pts) THEN g
    ELSE GroupLoop(GroupAppend(g, FormatDate(In(pts[k].Time, loc)), pts[k]), pts, k + 1, loc)

groupByDay(pts, loc) == GroupLoop(EmptyMap, pts, 1, loc)

Instants ==
    { Date2024(6, 1, 23, 59), Date2024(6, 2, 0, 1), Date2024(6, 2, 21, 30),
      Date2024(2, 29, 23, 0), Date2024(12, 31, 23, 30) }

Locations == {UTC, FixedZone("UTC+2", 2), FixedZone("UTC-5", 0 - 5)}

GroupPoints == {TrackPoint(0, 0, ele, t) : ele \in {0, Scale}, t \in Instants}

GroupInit ==
    /\ points \in SeqsUpTo(GroupPoints, MaxPoints)
    /\ location \in Locations
    /\ given = points
    /\ pc = "call"
    /\ ret = <<>>
    /\ result = NoResult
    /\ windowSize = 0
    /\ AscentIdle
    /\ MainIdle

CallGroupByDay ==
    /\ pc = "call"
    /\ ret' = groupByDay(points, location)
    /\ pc' = "groupByDay"
    /\ UNCHANGED <<points, windowSize, given, result, location, ascentVars, mainVars>>

GroupNext == CallGroupByDay

SpecGroup == GroupInit /\ [][GroupNext]_vars

----------------------------------------------------------------------------
(* calculateGOTAscent, calculateGOTDistance, calculateDailyGOTPoints and the *)
(* report of one day                                                        *)

mathRound_HalfEven(num, den) ==
    LET q == num \div den
        twice == 2 * (num - q * den)
    IN  IF twice < den THEN q
        ELSE IF twice > den THEN q + 1
        ELSE IF q % 2 = 0 THEN q ELSE q + 1

\* math.Round of num/den: the nearest integer, halves away from zero
mathRound(num, den) ==
    IF num >= 0 THEN (2 * num + den) \div (2 * den)
    ELSE 0 - ((2 * (0 - num) + den) \div (2 * den))

\* val := n / 100.0; int(math.Round(val)), n in metres
calculateGOTAscent(n) == mathRound(n, 100 * Scale)

\* int(math.Round(n)), n in km
calculateGOTDistance(n) == mathRound(n, Scale)

calculateDailyGOTPoints(distance, asc) == distance + asc

\* the lines main prints for one day's result r, r.Distance being its value in km
ReportOf(r) ==
    LET gotDistance == calculateGOTDistance(r.Distance)
        gotAscent == calculateGOTAscent(r.Ascent)
        gotSum == calculateDailyGOTPoints(gotDistance, gotAscent)
    IN  [gotDistance |-> gotDistance,
         gotAscent |-> gotAscent,
         line |-> IF gotSum >= 50
                  THEN [text |-> "GOT points LIMIT achieved", points |-> 50]
                  ELSE [text |-> "GOT points achieved", points |-> gotSum]]

Tenths(n) == (n * Scale) \div 10

\* distances in km and ascents in metres a day can end with
ScoreResults ==
    [Distance : {Tenths(n) : n \in {0, 4, 5, 15, 124, 125, 456, 494, 495, 500, 1200}},
     Ascent : {m * Scale : m \in {0, 49, 50, 149, 150, 250, 560, 820, 5050}}]

ScoreInit ==
    /\ result \in ScoreResults
    /\ pc = "call"
    /\ ret = <<>>
    /\ points = <<>>
    /\ given = <<>>
    /\ windowSize = 0
    /\ location = UTC
    /\ AscentIdle
    /\ MainIdle

\* one iteration of main's loop over results
ReportDay ==
    /\ pc = "call"
    /\ ret' = ReportOf(result)
    /\ pc' = "reported"
    /\ UNCHANGED <<points, windowSize, given, result, location, ascentVars, mainVars>>

ScoreNext == ReportDay

SpecScore == ScoreInit /\ [][ScoreNext]_vars

----------------------------------------------------------------------------
(* main: the per-day analysis *)

Track(name, segs) == [Name |-> name, TrackSegs |-> segs]

TrackSegment(pts) == [TrackPoints |-> pts]

\* xml.Unmarshal of a file with one <trk> holding one <trkseg>, followed by the
\* elements items: a <trkpt> joins the last segment, "trkseg" opens a segment in
\* the last track, "trk" opens a track with one segment
RECURSIVE Unmarshal(_, _)
Unmarshal(g, items) ==
    IF items = <<>> THEN g
    ELSE LET it == Head(items)
             t == g[Len(g)]
             segs == t.TrackSegs
         IN  Unmarshal(
                 IF it.kind = "trk"
                 THEN Append(g, Track("t", <<TrackSegment(<<>>)>>))
                 ELSE IF it.kind = "trkseg"
                 THEN [g EXCEPT ![Len(g)].TrackSegs = Append(segs, TrackSegment(<<>>))]
                 ELSE [g EXCEPT ![Len(g)].TrackSegs[Len(segs)].TrackPoints = Append(@, it.pt)],
                 Tail(items))

\* three track points: two late on 1 June UTC, one just before midnight UTC
MainPoints ==
    { TrackPoint(0, 0, 0, Date2024(6, 1, 21, 30)),
      TrackPoint(3 * Scale, 0, 6 * Scale, Date2024(6, 1, 21, 30)),
      TrackPoint(3 * Scale, 0, 6 * Scale, Date2024(6, 1, 23, 59)) }

Items ==
    {[kind |-> "trkpt", pt |-> p] : p \in MainPoints}
        \cup {[kind |-> "trkseg", pt |-> <<>>], [kind |-> "trk", pt |-> <<>>]}

GpxFiles ==
    {Unmarshal(<<Track("t", <<TrackSegment(<<>>)>>)>>, items) : items \in SeqsUpTo(Items, MaxItems)}
        \cup {<<>>, <<Track("t", <<>>)>>}

\* time.LoadLocation("Europe/Warsaw") in June, or UTC when it fails
polandLocations == {FixedZone("Europe/Warsaw", 2), UTC}

MainInit ==
    /\ gpx \in GpxFiles
    /\ location \in polandLocations
    /\ given = gpx
    /\ results = EmptyMap
    /\ trk = 1
    /\ sg = 0
    /\ grouped = EmptyMap
    /\ pending = {}
    /\ day = ""
    /\ dist = EmptyBag
    /\ ascent = 0
    /\ run = 1
    /\ firstResults = EmptyMap
    /\ pc = "tracks"
    /\ points = <<>>
    /\ ret = <<>>
    /\ result = NoResult
    /\ windowSize = 0
    /\ AscentIdle

mainFrame == <<points, ret, windowSize, given, result, location, ascentVars, run, firstResults>>

\* for _, track := range gpx.Tracks: the next track
EnterTrack ==
    /\ pc = "tracks"
    /\ trk <= Len(gpx)
    /\ sg' = 1
    /\ pc' = "segments"
    /\ UNCHANGED <<gpx, trk, grouped, pending, day, dist, ascent, results, mainFrame>>

\* the loop over tracks ends
LeaveTracks ==
    /\ pc = "tracks"
    /\ trk > Len(gpx)
    /\ pc' = "report"
    /\ UNCHANGED <<gpx, trk, sg, grouped, pending, day, dist, ascent, results, mainFrame>>

\* for _, segment := range track.TrackSegs: the next segment, grouped by day
EnterSegment ==
    /\ pc = "segments"
    /\ sg <= Len(gpx[trk].TrackSegs)
    /\ grouped' = groupByDay(gpx[trk].TrackSegs[sg].TrackPoints, location)
    /\ pending' = DOMAIN grouped'
    /\ pc' = "days"
    /\ UNCHANGED <<gpx, trk, sg, day, dist, ascent, results, mainFrame>>

\* the loop over the track's segments ends
LeaveTrack ==
    /\ pc = "segments"
    /\ sg > Len(gpx[trk].TrackSegs)
    /\ trk' = trk + 1
    /\ pc' = "tracks"
    /\ UNCHANGED <<gpx, sg, grouped, pending, day, dist, ascent, results, mainFrame>>

\* r := results[day]: the zero value for a missing key
LoadResult(res, key) == IF key \in DOMAIN res THEN res[key] ELSE NoResult

AccumulateDay_Overwrite(res, key, d, a) ==
    [k \in DOMAIN res \cup {key} |-> IF k = key THEN [Distance |-> d, Ascent |-> a] ELSE res[k]]

\* r := results[day]; r.Distance += dist; r.Ascent += ascent; results[day] = r
AccumulateDay(res, key, d, a) ==
    LET r == LoadResult(res, key)
    IN  [k \in DOMAIN res \cup {key} |->
            IF k = key THEN [Distance |-> r.Distance (+) d, Ascent |-> r.Ascent + a]
            ELSE res[k]]

DayBody_DistNotReset ==
    /\ pc = "days"
    /\ \E key \in pending :
          LET u == AnalyzeUnit(grouped[key])
          IN  /\ day' = key
              /\ grouped' = [grouped EXCEPT ![key] = u.points]
              /\ dist' = SegmentDistance(u.smoothed, 2, dist)
              /\ ascent' = u.Ascent
              /\ results' = AccumulateDay(results, key, dist', ascent')
              /\ pending' = pending \ {key}
    /\ UNCHANGED <<gpx, trk, sg, pc, mainFrame>>

\* for day, pts := range grouped: one iteration, on a key not yet visited
DayBody ==
    /\ pc = "days"
    /\ \E key \in pending :
          LET u == AnalyzeUnit(grouped[key])
          IN  /\ day' = key
              /\ grouped' = [grouped EXCEPT ![key] = u.points]
              /\ dist' = SegmentDistance(u.smoothed, 2, EmptyBag)
              /\ ascent' = u.Ascent
              /\ results' = AccumulateDay(results, key, dist', ascent')
              /\ pending' = pending \ {key}
    /\ UNCHANGED <<gpx, trk, sg, pc, mainFrame>>

\* range grouped has visited every key
LeaveSegment ==
    /\ pc = "days"
    /\ pending = {}
    /\ sg' = sg + 1
    /\ pc' = "segments"
    /\ UNCHANGED <<gpx, trk, grouped, pending, day, dist, ascent, results, mainFrame>>

\* the program is run once more on the same file
RunAgain ==
    /\ pc = "report"
    /\ run = 1
    /\ run' = 2
    /\ firstResults' = results
    /\ results' = EmptyMap
    /\ trk' = 1
    /\ sg' = 0
    /\ grouped' = EmptyMap
    /\ pending' = {}
    /\ day' = ""
    /\ dist' = EmptyBag
    /\ ascent' = 0
    /\ pc' = "tracks"
    /\ UNCHANGED <<gpx, points, ret, windowSize, given, result, location, ascentVars>>

MainNext ==
    \/ EnterTrack \/ LeaveTracks \/ EnterSegment \/ LeaveTrack
    \/ DayBody \/ LeaveSegment \/ RunAgain

SpecMain == MainInit /\ [][MainNext]_vars

----------------------------------------------------------------------------
(* Properties of calculateCumulativeAscent *)

Elevations(pts) == [k \in 1..Len(pts) |-> pts[k].Elevation]

\* <<a, b>> is a climb run of e: a maximal stretch of strictly increasing elevations
IsClimbRun(e, a, b) ==
    /\ a < b
    /\ \A k \in a..(b - 1) : e[k] < e[k + 1]
    /\ (a = 1 \/ e[a - 1] >= e[a])
    /\ (b = Len(e) \/ e[b] >= e[b + 1])

ClimbRuns(e) == {r \in (1..Len(e)) \X (1..Len(e)) : IsClimbRun(e, r[1], r[2])}

\* the sum of the rises of the climb runs whose rise is at least T
QualifyingRise(e, T) ==
    SetSum({<<r, e[r[2]] - e[r[1]]>> : r \in {q \in ClimbRuns(e) : e[q[2]] - e[q[1]] >= T}})

\* the sum of the positive deltas among the first k points
RECURSIVE PositiveDeltas(_, _)
PositiveDeltas(e, k) ==
    IF k < 2 THEN 0
    ELSE PositiveDeltas(e, k - 1) + (IF e[k] > e[k - 1] THEN e[k] - e[k - 1] ELSE 0)

\* the rise of the climb run still open at point k (0 when point k did not rise)
RECURSIVE OpenRunRise(_, _)
OpenRunRise(e, k) ==
    IF k < 2 \/ e[k] <= e[k - 1] THEN 0 ELSE (e[k] - e[k - 1]) + OpenRunRise(e, k - 1)

\* C1: calculateCumulativeAscent returns the sum of the rises of the maximal
\* strictly increasing runs whose rise is at least the threshold (a run ends at
\* any non-positive delta or at the end of the sequence), and 0 for fewer than
\* two points; threshold 1.5 on [100,102,101,105] gives 6, threshold 5 on
\* [0,3,0,3,0] gives 0.
C1_AscentIsQualifyingRise ==
    /\ pc = "done" => ret = QualifyingRise(Elevations(points), threshold)
    /\ (pc = "done" /\ Len(points) < 2) => ret = 0
    /\ (pc = "done" /\ threshold = 5 * Scale
          /\ Elevations(points) = <<0, 3 * Scale, 0, 3 * Scale, 0>>) => ret = 0

C1_Witness ==
    /\ pc = "done"
    /\ threshold = ascentThreshold
    /\ Elevations(points) = <<100 * Scale, 102 * Scale, 101 * Scale, 105 * Scale>>
    /\ ret = 6 * Scale

\* C9 as stated: with a threshold <= 0, after each processed point the committed
\* total already equals the sum of all positive deltas seen so far.
C9_CommittedImmediately ==
    (threshold <= 0 /\ pc = "loop") =>
        totalAscent = PositiveDeltas(Elevations(points), i - 1)

\* C9 as amended: with a threshold <= 0 a positive delta is held in the pending
\* climb and committed when its run ends (at the next non-positive delta or at
\* the final flush): after each processed point the committed total plus the
\* pending climb equals the sum of all positive deltas seen so far, the pending
\* climb being the rise of the run still open, and the value returned is the
\* sum of all positive deltas.
C9_CommittedAtRunEnd ==
    threshold <= 0 =>
        /\ pc = "loop" =>
              /\ climb = OpenRunRise(Elevations(points), i - 1)
              /\ totalAscent + climb = PositiveDeltas(Elevations(points), i - 1)
        /\ pc = "done" => ret = PositiveDeltas(Elevations(points), Len(points))

C9_Witness ==
    /\ threshold = 0
    /\ pc = "loop"
    /\ Elevations(points) = <<0, 10 * Scale, 20 * Scale, 30 * Scale>>
    /\ i = 4
    /\ climb = 20 * Scale
    /\ totalAscent = 0

\* the state part of C10
C10_State ==
    /\ \A T1, T2 \in Thresholds :
          T1 <= T2 =>
              /\ calculateCumulativeAscent(points, T1) >= calculateCumulativeAscent(points, T2)
              /\ calculateCumulativeAscent(points, T2) >= 0
    /\ \A T \in Thresholds :
          /\ calculateCumulativeAscent(points, T) <= PositiveDeltas(Elevations(points), Len(points))
          /\ T <= 0 => calculateCumulativeAscent(points, T) = PositiveDeltas(Elevations(points), Len(points))
    /\ pc = "done" => ret = calculateCumulativeAscent(points, threshold)
    /\ climb >= 0
    /\ totalAscent >= 0

\* C10: the ascent is antitone in the threshold and never negative, never
\* exceeds the sum of the positive deltas (and equals it for a threshold <= 0);
\* in every state of the loop the pending climb and the committed total are
\* >= 0, and the committed total never decreases.
C10_AscentBounds == []C10_State /\ [][totalAscent' >= totalAscent]_vars

C10_Witness ==
    /\ pc = "loop"
    /\ i > 2
    /\ totalAscent > 0
    /\ climb > 0
    /\ calculateCumulativeAscent(points, 0) > calculateCumulativeAscent(points, ascentThreshold)
    /\ calculateCumulativeAscent(points, ascentThreshold) > calculateCumulativeAscent(points, 5 * Scale)

----------------------------------------------------------------------------
(* Properties of the smoothers *)

\* the indices max(0, k - W/2) .. min(n - 1, k + W/2), 1-based
ClippedWindow(k, w, n) == {j \in 1..n : k - (w \div 2) <= j /\ j <= k + (w \div 2)}

\* v is the arithmetic mean of field f of pts over the indices J
IsMeanOver(v, pts, f, J) == v * Cardinality(J) = SetSum({<<j, pts[j][f]>> : j \in J})

\* C2: for a non-empty sequence and an odd window W >= 1, each smoother returns
\* a new sequence of the same length whose k-th point is the k-th input point
\* with only Elevation (resp. only Latitude and Longitude) replaced by the mean
\* of that field over the window clipped to the sequence, divided by the number
\* of points in the clipped window; the input is not modified.
C2_SmoothersAreClippedMeans ==
    (Len(given) > 0 /\ windowSize >= 1 /\ windowSize % 2 = 1) =>
        /\ pc = "applyMovingAverage" =>
              /\ points = given
              /\ Len(ret) = Len(given)
              /\ \A k \in 1..Len(given) :
                    /\ IsMeanOver(ret[k].Elevation, given, "Elevation",
                                  ClippedWindow(k, windowSize, Len(given)))
                    /\ ret[k] = [given[k] EXCEPT !.Elevation = ret[k].Elevation]
        /\ pc = "applyLatLonSmoothing" =>
              /\ points = given
              /\ Len(ret) = Len(given)
              /\ \A k \in 1..Len(given) :
                    /\ IsMeanOver(ret[k].Latitude, given, "Latitude",
                                  ClippedWindow(k, windowSize, Len(given)))
                    /\ IsMeanOver(ret[k].Longitude, given, "Longitude",
                                  ClippedWindow(k, windowSize, Len(given)))
                    /\ ret[k] = [given[k] EXCEPT !.Latitude = ret[k].Latitude,
                                                 !.Longitude = ret[k].Longitude]

C2_Witness ==
    /\ pc = "applyMovingAverage"
    /\ windowSize = 3
    /\ Len(given) = 3
    /\ ret[1].Elevation * 2 = given[1].Elevation + given[2].Elevation
    /\ ret[1].Elevation # given[1].Elevation
    /\ ret[2].Elevation # given[2].Elevation
    /\ ret[2].Latitude # ret[2].Longitude

\* C3: for an empty sequence or a window < 1 both smoothers return the input
\* unchanged (same length, same points, same order); an empty unit of work
\* yields distance 0 and ascent 0.
C3_DegenerateInputPassesThrough ==
    /\ (Len(given) = 0 \/ windowSize < 1) =>
          (pc \in {"applyMovingAverage", "applyLatLonSmoothing"} =>
              /\ ret = given
              /\ points = given)
    /\ (Len(given) = 0 /\ pc = "segment") =>
          /\ ret = given
          /\ result = [Distance |-> EmptyBag, Ascent |-> 0]

C3_Witness ==
    /\ pc = "applyLatLonSmoothing"
    /\ windowSize < 1
    /\ Len(given) = 3
    /\ given[1] # given[2]
    /\ ret = given

\* C4: for an even window W >= 2 each smoother's output equals, point for
\* point, its output for the window W + 1.
C4_EvenWindowIsNextOdd ==
    (windowSize >= 2 /\ windowSize % 2 = 0) =>
        /\ pc = "applyMovingAverage" => ret = applyMovingAverage(given, windowSize + 1).ret
        /\ pc = "applyLatLonSmoothing" => ret = applyLatLonSmoothing(given, windowSize + 1).ret

C4_Witness ==
    /\ pc = "applyLatLonSmoothing"
    /\ windowSize = 2
    /\ Len(given) = 3
    /\ ret[1] # given[1]
    /\ ret[2] # given[2]
    /\ ret[2] # ret[1]

----------------------------------------------------------------------------
(* Properties of groupByDay *)

\* the local calendar day of an instant, as a day count
LocalDay(t, loc) == (t + loc.offset) \div (24 * 60)

DigitValue(ch) == CHOOSE n \in 0..9 : Digit(n) = ch

\* the day count of the date a YYYY-MM-DD key spells, within 2023..2025
KeyDay(key) ==
    LET y == 1000 * DigitValue(key[1]) + 100 * DigitValue(key[2])
               + 10 * DigitValue(key[3]) + DigitValue(key[4])
        m == 10 * DigitValue(key[6]) + DigitValue(key[7])
        d == 10 * DigitValue(key[9]) + DigitValue(key[10])
        monthsBefore == SetSum({<<k, DaysInMonth(y, k)>> : k \in 1..(m - 1)})
        yearStart == IF y = 2023 THEN 0 - 365 ELSE IF y = 2024 THEN 0 ELSE 366
    IN  yearStart + monthsBefore + d - 1

\* the points of pts whose local day is d, in the order of pts
RECURSIVE PointsOfDay(_, _, _)
PointsOfDay(pts, d, loc) ==
    IF pts = <<>> THEN <<>>
    ELSE (IF LocalDay(Head(pts).Time, loc) = d THEN <<Head(pts)>> ELSE <<>>)
            \o PointsOfDay(Tail(pts), d, loc)

\* C5: groupByDay partitions the sequence by local calendar date: every bucket
\* is keyed by a date, holds exactly the input points of that local date in
\* their input order, no two buckets share a date, and every input point's
\* date has a bucket; 23:59 UTC of 1 June and 00:01 UTC of 2 June are in two
\* buckets under UTC.
C5_GroupByDayPartitions ==
    pc = "groupByDay" =>
        /\ \A key \in DOMAIN ret :
              /\ Len(key) = 10 /\ key[5] = "-" /\ key[8] = "-"
              /\ ret[key] # <<>>
              /\ ret[key] = PointsOfDay(given, KeyDay(key), location)
        /\ \A k1, k2 \in DOMAIN ret : KeyDay(k1) = KeyDay(k2) => k1 = k2
        /\ \A k \in 1..Len(given) :
              \E key \in DOMAIN ret : KeyDay(key) = LocalDay(given[k].Time, location)
        /\ points = given
        /\ (location = UTC /\ Len(given) = 2 /\ given[1].Time = Date2024(6, 1, 23, 59)
              /\ given[2].Time = Date2024(6, 2, 0, 1)) =>
                 /\ ret[<<"2", "0", "2", "4", "-", "0", "6", "-", "0", "1">>] = <<given[1]>>
                 /\ ret[<<"2", "0", "2", "4", "-", "0", "6", "-", "0", "2">>] = <<given[2]>>

C5_Witness ==
    /\ pc = "groupByDay"
    /\ location.offset = 120
    /\ Len(given) = 3
    /\ given[1].Time = Date2024(6, 1, 23, 59)
    /\ given[2].Time = Date2024(6, 2, 0, 1)
    /\ given[3].Time = Date2024(12, 31, 23, 30)
    /\ given[1] # given[2]
    /\ DOMAIN ret = { <<"2", "0", "2", "4", "-", "0", "6", "-", "0", "2">>,
                      <<"2", "0", "2", "5", "-", "0", "1", "-", "0", "1">> }
    /\ ret[<<"2", "0", "2", "4", "-", "0", "6", "-", "0", "2">>] = <<given[1], given[2]>>

----------------------------------------------------------------------------
(* Properties of the score *)

\* n is the integer nearest to num/den, a tie going to the one further from zero
IsRoundedHalfAway(n, num, den) ==
    /\ 2 * Abs(num - n * den) <= den
    /\ 2 * Abs(num - n * den) = den => Abs(n * den) > Abs(num)

\* C6: the points reported as achieved are min(distancePoints + ascentPoints,
\* 50), with distancePoints = round(distanceKm) and ascentPoints =
\* round(ascentMeters / 100), ties away from zero; a total >= 50 is reported as
\* the limit 50, a smaller total literally; (12.4 km, 560 m) reports 18.
C6_ReportedPointsAreCapped ==
    pc = "reported" =>
        /\ \E dp, ap \in 0..200 :
              /\ IsRoundedHalfAway(dp, result.Distance, Scale)
              /\ IsRoundedHalfAway(ap, result.Ascent, 100 * Scale)
              /\ ret.gotDistance = dp
              /\ ret.gotAscent = ap
              /\ ret.line.points = Min(dp + ap, 50)
              /\ ret.line.text = (IF dp + ap >= 50 THEN "GOT points LIMIT achieved"
                                  ELSE "GOT points achieved")
        /\ ret.line.points <= 50
        /\ (result.Distance = Tenths(124) /\ result.Ascent = 560 * Scale) => ret.line.points = 18

C6_Witness ==
    /\ pc = "reported"
    /\ result.Distance = Tenths(456)
    /\ result.Ascent = 820 * Scale
    /\ ret.gotDistance = 46
    /\ ret.gotAscent = 8
    /\ ret.line = [text |-> "GOT points LIMIT achieved", points |-> 50]

----------------------------------------------------------------------------
(* Properties of the per-day analysis *)

\* the segments of every track, in the order main visits them
RECURSIVE AllSegments(_)
AllSegments(g) ==
    IF g = <<>> THEN <<>> ELSE Head(g).TrackSegs \o AllSegments(Tail(g))

\* the result of one segment's points of local day d alone, nothing for no points
UnitOfDay(seg, d, loc) ==
    LET unit == PointsOfDay(seg.TrackPoints, d, loc)
        smoothed == applyLatLonSmoothing(
                        applyMovingAverage(unit, movingAverageWindowSize).ret,
                        movingAverageWindowSize).ret
    IN  IF unit = <<>> THEN NoResult
        ELSE [Distance |-> SegmentDistance(smoothed, 2, EmptyBag),
              Ascent |-> calculateCumulativeAscent(smoothed, ascentThreshold)]

\* the field-wise sum of the unit results of local day d over the segments
RECURSIVE DaySum(_, _, _)
DaySum(segs, d, loc) ==
    IF segs = <<>> THEN NoResult
    ELSE LET u == UnitOfDay(Head(segs), d, loc)
             rest == DaySum(Tail(segs), d, loc)
         IN  [Distance |-> u.Distance (+) rest.Distance, Ascent |-> u.Ascent + rest.Ascent]

SegmentsOnDay(g, d, loc) ==
    {n \in 1..Len(AllSegments(g)) : PointsOfDay(AllSegments(g)[n].TrackPoints, d, loc) # <<>>}

\* the local days on which the file has points
DaysOf(g, loc) == {d \in {LocalDay(p.Time, loc) : p \in MainPoints} : SegmentsOnDay(g, d, loc) # {}}

\* C7: when the analysis ends, each day's Result is the field-wise sum, over all
\* track segments, of the unit result computed from only that segment's points
\* of that day (elevation smoothing, position smoothing, then distance and
\* ascent of the smoothed points), and there is a Result for exactly the days
\* that have points.
C7_DayResultIsSumOfUnits ==
    pc = "report" =>
        /\ \A key \in DOMAIN results :
              results[key] = DaySum(AllSegments(given), KeyDay(key), location)
        /\ {KeyDay(key) : key \in DOMAIN results} = DaysOf(given, location)
        /\ \A k1, k2 \in DOMAIN results : KeyDay(k1) = KeyDay(k2) => k1 = k2

C7_Witness ==
    /\ pc = "report"
    /\ location.offset = 120
    /\ \E key \in DOMAIN results :
          /\ Cardinality(SegmentsOnDay(given, KeyDay(key), location)) = 2
          /\ results[key].Distance # EmptyBag
          /\ results[key].Ascent = 3 * Scale

\* C8: a second run on the same input ends with the same per-day Results as
\* the first, whatever order either run visited the day buckets in, and the
\* input is never modified.
C8_RerunGivesSameResults ==
    /\ gpx = given
    /\ (run = 2 /\ pc = "report") => results = firstResults

C8_Witness ==
    /\ run = 2
    /\ pc = "report"
    /\ Len(AllSegments(given)) = 1
    /\ Cardinality(DOMAIN results) = 2
    /\ \E key \in DOMAIN results : KeyDay(key) > KeyDay(day)
    /\ \E key \in DOMAIN results : results[key].Distance # EmptyBag
    /\ results = firstResults

====
